---- MODULE Spec2Model ----
(***************************************************************************)
(* queuectl: a SQLite-backed job queue (queuectl/storage.py), the worker   *)
(* loop that claims and executes jobs (queuectl/worker.py) and the         *)
(* administrative commands (queuectl/cli.py).                              *)
(*                                                                         *)
(* Timestamps are readings of one clock `now`; NoTime is SQL NULL in a     *)
(* timestamp column and NULL is SQL NULL in a text column.  Job ids are    *)
(* numbered in their text order.                                           *)
(***************************************************************************)
EXTENDS Integers, Sequences, FiniteSets, TLC

\* ---------------------------------------------------------------- bounds
MaxJobs == 2
MaxTime == 1
NumWorkers == 2
MaxExecutions == 3
MaxPrompts == 2
MaxStarts == 2

\* ------------------------------------------------------------- constants
NULL == "NULL"
NoTime == -1
DefaultMaxRetries == 3

Ids == 1..MaxJobs
WorkerNames == <<"worker-1", "worker-2", "worker-3", "worker-4">>
Workers == {WorkerNames[i] : i \in 1..NumWorkers}

None == [id |-> 0]

\* The columns of the jobs table.
Columns ==
  {"id", "command", "state", "attempts", "max_retries",
   "created_at", "updated_at", "locked_by", "locked_at"}

VARIABLES
  jobs,        \* the jobs table: id -> row
  config,      \* the config table: key -> value
  now,         \* the clock read by datetime.now(timezone.utc)
  enqueued,    \* id -> the Job.to_dict() that enqueue handed to create_job
  running,     \* Worker.running, per worker
  pc,          \* position of each worker in Worker.run
  job,         \* the local `job` of Worker.run while the job is held, else None
  executions,  \* id -> runs of the job's command since enqueue or dlq retry
  dlq_prompt,  \* id -> `dlq retry` invocations waiting at click.confirm
  transitions, \* id -> processing->pending and processing->dead transitions
  set_call,    \* the arguments of the latest set_config call, else None
  raised,      \* the exception raised in the latest enqueue, `dlq retry` or
               \* direct storage call, "" when none was raised
  returned,    \* the latest direct update_job call that returned: its
               \* arguments and its return value, else None
  processes,   \* the worker processes spawned by `worker start`, in order
  supervisor   \* position of each `worker start` invocation

vars ==
  <<jobs, config, now, enqueued, running, pc, job, executions,
    dlq_prompt, transitions, set_call, raised, returned, processes,
    supervisor>>

\* ------------------------------------------------------------ enqueue input
\* The JOB_JSON argument of `queuectl enqueue`.  A JSON object is the record
\* of its keys; any other text is a record that holds the text under `json`.
\* QueuePayloads are the jobs the workers are given; ValidPayloads pass the
\* validation of enqueue and InvalidPayloads do not: text that is not JSON,
\* a JSON list, an object without command, an empty and a blank command, an
\* empty and a blank id, and a priority that is none of high, medium, low.
QueuePayloads ==
  { [command |-> "echo hello", priority |-> "high", max_retries |-> 0],
    [command |-> "exit 1",     priority |-> "LOW"] }

ValidPayloads ==
  QueuePayloads
    \cup { [command |-> "sleep 400", priority |-> "medium", max_retries |-> -2],
           [command |-> "echo hello"] }

InvalidPayloads ==
  { [json |-> "not json"],
    [json |-> "[1, 2]"],
    [priority |-> "high"],
    [command |-> "",           priority |-> "high"],
    [command |-> "   "],
    [id |-> "",    command |-> "echo hello"],
    [id |-> "   ", command |-> "echo hello"],
    [command |-> "echo hello", priority |-> "urgent"] }

Payloads == ValidPayloads \cup InvalidPayloads

\* str.lower() on the priority strings that occur.
lower(s) ==
  CASE s = "HIGH" -> "high"
    [] s = "LOW" -> "low"
    [] s = "MEDIUM" -> "medium"
    [] OTHER -> s

valid_priorities == {"high", "medium", "low"}

\* str.strip() on the strings that occur.
strip(s) == IF s = "   " THEN "" ELSE s

\* json.loads raises JSONDecodeError.
json_loads_raises(p) == "json" \in DOMAIN p /\ p.json = "not json"

\* A validation that tests the command for the empty string only.
enqueue_rejects_unstripped(p) ==
  \/ "json" \in DOMAIN p
  \/ "command" \notin DOMAIN p
  \/ p.command = ""
  \/ "id" \in DOMAIN p /\ (p.id = "" \/ strip(p.id) = "")
  \/ "priority" \in DOMAIN p /\ lower(p.priority) \notin valid_priorities

\* The validation steps of enqueue on parsed JSON: TRUE when the payload is
\* rejected with click.Abort.
enqueue_rejects(p) ==
  \/ "json" \in DOMAIN p
  \/ "command" \notin DOMAIN p
  \/ p.command = "" \/ strip(p.command) = ""
  \/ "id" \in DOMAIN p /\ (p.id = "" \/ strip(p.id) = "")
  \/ "priority" \in DOMAIN p /\ lower(p.priority) \notin valid_priorities

\* Job(...).to_dict() as built by enqueue.
to_dict(id, p, t) ==
  [id |-> id,
   command |-> p.command,
   priority |-> IF "priority" \in DOMAIN p THEN lower(p.priority)
                ELSE "medium",
   state |-> "pending",
   attempts |-> 0,
   max_retries |-> IF "max_retries" \in DOMAIN p THEN p.max_retries
                   ELSE DefaultMaxRetries,
   created_at |-> t,
   updated_at |-> t,
   next_retry_at |-> NoTime]

\* Job dicts handed to Storage.create_job by a caller other than enqueue:
\* a job in the dead letter queue, and a job waiting for a scheduled retry
\* that was created at clock reading 0.
JobDicts(id, t) ==
  { [id |-> id, command |-> "echo hello", priority |-> "high",
     state |-> "dead", attempts |-> 1, max_retries |-> 1,
     created_at |-> t, updated_at |-> t, next_retry_at |-> NoTime],
    [id |-> id, command |-> "sleep 400", priority |-> "low",
     state |-> "pending", attempts |-> 1, max_retries |-> 3,
     created_at |-> 0, updated_at |-> t, next_retry_at |-> t + 2] }

\* ------------------------------------------------------------------ storage
\* An INSERT OR REPLACE: a duplicate primary key does not raise.
create_job_raises_never(table, d) == FALSE

\* Storage.create_job raises on a duplicate primary key.
create_job_raises(table, d) == d.id \in DOMAIN table

\* An INSERT into a table that also has a next_retry_at column.
create_job_with_next_retry_at(table, d) ==
  (d.id :>
    [id |-> d.id,
     command |-> d.command,
     state |-> d.state,
     attempts |-> d.attempts,
     max_retries |-> d.max_retries,
     created_at |-> d.created_at,
     updated_at |-> d.updated_at,
     next_retry_at |-> d.next_retry_at,
     locked_by |-> NULL,
     locked_at |-> NoTime]) @@ table

\* Storage.create_job: the INSERT names seven columns; the lock columns take
\* their NULL default.
create_job(table, d) ==
  (d.id :>
    [id |-> d.id,
     command |-> d.command,
     state |-> d.state,
     attempts |-> d.attempts,
     max_retries |-> d.max_retries,
     created_at |-> d.created_at,
     updated_at |-> d.updated_at,
     locked_by |-> NULL,
     locked_at |-> NoTime]) @@ table

\* Storage.get_job
get_job(table, id) == IF id \in DOMAIN table THEN table[id] ELSE None

\* The job states of the --state option of `queuectl list`.
States == {"pending", "processing", "completed", "failed", "dead"}

\* A SELECT without ORDER BY, which returns the rows in primary-key order.
list_jobs_by_id(table, state, limit) ==
  LET sel == {id \in DOMAIN table : state = "" \/ table[id].state = state}
      n == Cardinality(sel)
      m == IF limit > 0 /\ limit < n THEN limit ELSE n
  IN {[i \in 1..m |-> table[f[i]]] :
        f \in {g \in [1..n -> sel] :
                 \A i, j \in 1..n : i < j => g[i] < g[j]}}

\* Storage.list_jobs: the sequences of rows the query may return.  state = ""
\* and limit = 0 stand for the arguments left out; rows with equal
\* created_at come in an order SQL leaves unspecified.
list_jobs(table, state, limit) ==
  LET sel == {id \in DOMAIN table : state = "" \/ table[id].state = state}
      n == Cardinality(sel)
      m == IF limit > 0 /\ limit < n THEN limit ELSE n
  IN {[i \in 1..m |-> table[f[i]]] :
        f \in {g \in [1..n -> sel] :
                 /\ \A i, j \in 1..n : i # j => g[i] # g[j]
                 /\ \A i, j \in 1..n :
                      i < j => table[g[i]].created_at <= table[g[j]].created_at}}

\* Storage.update_job raises when the SET clause names a column the table
\* does not have.
update_job_raises(updates) ==
  /\ DOMAIN updates # {}
  /\ DOMAIN updates \ Columns # {}

\* Storage.update_job: the table after the call.
update_job(table, id, updates, t) ==
  IF DOMAIN updates = {} \/ update_job_raises(updates) \/ id \notin DOMAIN table
  THEN table
  ELSE [table EXCEPT ![id] =
         [c \in Columns |->
            IF c = "updated_at" THEN t
            ELSE IF c \in DOMAIN updates THEN updates[c]
            ELSE table[id][c]]]

\* The return value of Storage.update_job when it does not raise: False for
\* an empty dict, else whether the UPDATE matched a row.
update_job_returns(table, id, updates) ==
  /\ DOMAIN updates # {}
  /\ id \in DOMAIN table

\* The dicts passed to Storage.update_job by a direct caller: the empty
\* dict, a change of state, and a column the jobs table does not have.
Patches ==
  { [c \in {} |-> ""],
    [state |-> "failed"],
    [priority |-> "low"] }

\* Storage.get_job_counts: every state of States with its number of jobs.
get_job_counts(table) ==
  [st \in States |->
     Cardinality({id \in DOMAIN table : table[id].state = st})]

\* The public methods of Storage.
StorageMethods ==
  {"claim_next_job", "create_job", "get_config", "get_connection", "get_job",
   "get_job_counts", "list_config", "list_jobs", "set_config", "update_job"}

\* `queuectl status` raises AttributeError: with pending or processing jobs
\* in the store it calls a method that Storage does not have.
status_raises(table) ==
  /\ get_job_counts(table)["pending"] + get_job_counts(table)["processing"] > 0
  /\ "get_priority_counts" \notin StorageMethods

\* Storage.get_config
get_config(cfg, key, default) ==
  IF key \in DOMAIN cfg THEN cfg[key] ELSE default

\* Job.from_dict reads next_retry_at with data.get: None for a row that has
\* no such key.
next_retry_at(row) ==
  IF "next_retry_at" \in DOMAIN row THEN row.next_retry_at ELSE NoTime

\* Job.from_dict reads priority with data.get: 'medium' for a row that has
\* no such key.
priority(row) ==
  IF "priority" \in DOMAIN row THEN row.priority ELSE "medium"

\* A WHERE clause that also selects jobs already being processed.
Eligible_with_processing(table) ==
  {id \in DOMAIN table : table[id].state \in {"pending", "processing"}}

\* A WHERE clause that tests the lock only.
Eligible_lock_only(table) ==
  {id \in DOMAIN table : table[id].locked_by = NULL}

\* The WHERE clause of claim_next_job.
Eligible(table) ==
  {id \in DOMAIN table :
     table[id].state = "pending" /\ table[id].locked_by = NULL}

\* ORDER BY created_at ASC LIMIT 1: the rows the query may return.  Rows
\* with equal created_at come in an order SQL leaves unspecified.
FirstByCreatedAt(table) ==
  {id \in Eligible(table) :
     \A other \in Eligible(table) :
        table[id].created_at <= table[other].created_at}

\* An UPDATE that also counts the claim as an attempt.
claimed_row_counting(row, worker_id, t) ==
  [row EXCEPT !.state = "processing",
              !.attempts = @ + 1,
              !.locked_by = worker_id,
              !.locked_at = t,
              !.updated_at = t]

\* An UPDATE that refreshes updated_at but leaves state and lock alone.
claimed_row_unmarked(row, worker_id, t) ==
  [row EXCEPT !.updated_at = t]

\* The row after the UPDATE of claim_next_job.
claimed_row(row, worker_id, t) ==
  [row EXCEPT !.state = "processing",
              !.locked_by = worker_id,
              !.locked_at = t,
              !.updated_at = t]

\* ------------------------------------------------------------------- worker
\* Worker.execute_command: the exit code of each command.
execute_command(command) ==
  CASE command = "echo hello" -> 0
    [] command = "exit 1" -> 1
    [] command = "sleep 400" -> 124
    [] OTHER -> 1

\* Worker.should_retry
should_retry(attempts, max_retries) == attempts < max_retries

\* int(s) on the config values that occur; is_int(s) is FALSE where int(s)
\* raises ValueError.
is_int(s) == s \in {"1", "2", "3"}

int(s) ==
  CASE s = "1" -> 1
    [] s = "2" -> 2
    [] s = "3" -> 3
    [] OTHER -> 0

RECURSIVE pow(_, _)
pow(b, e) == IF e <= 0 THEN 1 ELSE b * pow(b, e - 1)

\* The delay computed by mark_as_failed:
\* initial_delay * (backoff_base ** new_attempts).
delay_seconds(cfg, new_attempts) ==
  int(get_config(cfg, "backoff-initial-delay", "1"))
    * pow(int(get_config(cfg, "backoff-base", "2")), new_attempts)

\* mark_as_failed raises ValueError when a backoff setting is not a number.
backoff_config_raises(cfg) ==
  \/ ~is_int(get_config(cfg, "backoff-base", "2"))
  \/ ~is_int(get_config(cfg, "backoff-initial-delay", "1"))

\* The dict Worker.mark_as_failed passes to update_job.
mark_as_failed_updates(attempts, max_retries, cfg, t) ==
  LET new_attempts == attempts + 1 IN
  IF should_retry(new_attempts, max_retries)
  THEN [state |-> "pending",
        attempts |-> new_attempts,
        next_retry_at |-> t + delay_seconds(cfg, new_attempts),
        locked_by |-> NULL,
        locked_at |-> NoTime]
  ELSE [state |-> "dead",
        attempts |-> new_attempts,
        next_retry_at |-> NoTime,
        locked_by |-> NULL,
        locked_at |-> NoTime]

\* Worker.mark_as_failed raises: a bad backoff setting on the retry branch,
\* or the error of update_job.
mark_as_failed_raises(attempts, max_retries, cfg, t) ==
  \/ should_retry(attempts + 1, max_retries) /\ backoff_config_raises(cfg)
  \/ update_job_raises(mark_as_failed_updates(attempts, max_retries, cfg, t))

\* An update that releases the lock and leaves the state alone.
mark_as_completed_updates_lock_only ==
  [locked_by |-> NULL, locked_at |-> NoTime]

\* The dict Worker.mark_as_completed passes to update_job.
mark_as_completed_updates ==
  [state |-> "completed", locked_by |-> NULL, locked_at |-> NoTime]

\* A reset that also restores the default retry limit.
retry_updates_with_max_retries ==
  [state |-> "pending", attempts |-> 0, max_retries |-> DefaultMaxRetries,
   locked_by |-> NULL, locked_at |-> NoTime]

\* A reset that leaves the attempt counter alone.
retry_updates_keeping_attempts ==
  [state |-> "pending", locked_by |-> NULL, locked_at |-> NoTime]

\* The dict `dlq retry` passes to update_job.
retry_updates ==
  [state |-> "pending", attempts |-> 0, locked_by |-> NULL,
   locked_at |-> NoTime]

\* The keys and values of `queuectl config set`.
ConfigKeys == {"max-retries", "backoff-base", "backoff-initial-delay"}
ConfigValues == {"2", "x", ""}


Init ==
  /\ jobs = [i \in {} |-> None]
  /\ config = [k \in {} |-> ""]
  /\ now = 0
  /\ enqueued = [i \in {} |-> None]
  /\ running = [w \in Workers |-> TRUE]
  /\ pc = [w \in Workers |-> "loop"]
  /\ job = [w \in Workers |-> None]
  /\ executions = [i \in Ids |-> 0]
  /\ dlq_prompt = [i \in Ids |-> 0]
  /\ transitions = [i \in Ids |-> 0]
  /\ set_call = None
  /\ raised = ""
  /\ returned = None
  /\ processes = <<>>
  /\ supervisor = [s \in 1..MaxStarts |-> "none"]

\* The clock advances.
Tick ==
  /\ now < MaxTime
  /\ now' = now + 1
  /\ UNCHANGED <<jobs, config, enqueued, running, pc, job, executions, dlq_prompt, raised,
                 transitions, set_call, returned,
                 processes, supervisor>>

\* queuectl enqueue.  id is the payload's id, or the uuid generated for a
\* payload without one.  The command ends without a job when json.loads
\* raises, when a validation step raises click.Abort and when create_job
\* raises.
Enqueue(id, p) ==
  LET d == to_dict(id, p, now) IN
  /\ IF json_loads_raises(p)
     THEN /\ raised' = "JSONDecodeError"
          /\ UNCHANGED <<jobs, enqueued>>
     ELSE IF enqueue_rejects(p)
     THEN /\ raised' = "Abort"
          /\ UNCHANGED <<jobs, enqueued>>
     ELSE IF create_job_raises(jobs, d)
     THEN /\ raised' = "IntegrityError"
          /\ UNCHANGED <<jobs, enqueued>>
     ELSE /\ jobs' = create_job(jobs, d)
          /\ enqueued' = enqueued @@ (id :> d)
          /\ raised' = ""
  /\ UNCHANGED <<config, now, running, pc, job, executions,
                 dlq_prompt, transitions, set_call, returned,
                 processes, supervisor>>

\* Storage.create_job called directly with a Job dict.
CreateJob(id) ==
  /\ \E d \in JobDicts(id, now) :
       IF create_job_raises(jobs, d)
       THEN /\ raised' = "IntegrityError"
            /\ UNCHANGED <<jobs, enqueued>>
       ELSE /\ jobs' = create_job(jobs, d)
            /\ enqueued' = (id :> d) @@ enqueued
            /\ raised' = ""
  /\ UNCHANGED <<config, now, running, pc, job, executions, dlq_prompt,
                 transitions, set_call, returned,
                 processes, supervisor>>

\* An INSERT OR IGNORE: a key that is already set keeps its value.
SetConfig_insert_or_ignore(k, v) ==
  /\ config' = config @@ (k :> v)
  /\ set_call' = [key |-> k, value |-> v]
  /\ UNCHANGED <<jobs, now, enqueued, running, pc, job, executions,
                 dlq_prompt, raised, transitions, returned,
                 processes, supervisor>>

\* queuectl config set: Storage.set_config
SetConfig(k, v) ==
  /\ config' = (k :> v) @@ config
  /\ set_call' = [key |-> k, value |-> v]
  /\ UNCHANGED <<jobs, now, enqueued, running, pc, job, executions,
                 dlq_prompt, raised, transitions, returned,
                 processes, supervisor>>

\* Checks that let every job that exists through to the prompt.
retry_aborts_unknown_only(table, id) == get_job(table, id) = None

\* The checks of `dlq retry` before the prompt: TRUE when the command
\* reports "not found" or "not in Dead Letter Queue" and aborts.
retry_aborts(table, id) ==
  \/ get_job(table, id) = None
  \/ get_job(table, id).state # "dead"

\* queuectl dlq retry.  A new invocation looks the job up and checks its
\* state, then waits at the confirmation prompt; an invocation waiting at the
\* prompt gets its answer and, on yes, calls update_job.
DlqRetry(id) ==
  /\ \E answer \in {"none", "y", "n"} :
       IF answer # "none" /\ dlq_prompt[id] > 0
       THEN /\ dlq_prompt' = [dlq_prompt EXCEPT ![id] = @ - 1]
            /\ jobs' = IF answer = "y"
                       THEN update_job(jobs, id, retry_updates, now)
                       ELSE jobs
            /\ executions' = IF answer = "y"
                             THEN [executions EXCEPT ![id] = 0]
                             ELSE executions
            /\ raised' = IF answer = "n" THEN "Abort" ELSE ""
       ELSE IF retry_aborts(jobs, id)
            THEN /\ raised' = "Abort"
                 /\ UNCHANGED <<jobs, dlq_prompt, executions>>
            ELSE /\ dlq_prompt[id] < MaxPrompts
                 /\ dlq_prompt' = [dlq_prompt EXCEPT ![id] = @ + 1]
                 /\ UNCHANGED <<jobs, executions, raised>>
  /\ UNCHANGED <<config, now, enqueued, running, pc, job,
                 transitions, set_call, returned,
                 processes, supervisor>>

\* Worker.run, top of the loop with running set: claim_next_job.  When it
\* returns None the worker sleeps and is back at the top of the loop.
ClaimNextJob(w) ==
  /\ pc[w] = "loop"
  /\ running[w]
  /\ IF Eligible(jobs) = {}
     THEN UNCHANGED <<jobs, job, pc>>
     ELSE \E id \in FirstByCreatedAt(jobs) :
            /\ jobs' = [jobs EXCEPT ![id] = claimed_row(jobs[id], w, now)]
            /\ job' = [job EXCEPT ![w] = claimed_row(jobs[id], w, now)]
            /\ pc' = [pc EXCEPT ![w] = "execute"]
  /\ UNCHANGED <<config, now, enqueued, running, executions,
                 dlq_prompt, raised,
                 transitions, set_call, returned,
                 processes, supervisor>>

\* Worker.run: execute_command on the claimed job returns 0, then
\* mark_as_completed.
MarkAsCompleted(w) ==
  /\ pc[w] = "execute"
  /\ execute_command(job[w].command) = 0
  /\ executions' =
       [executions EXCEPT ![job[w].id] =
          IF @ < MaxExecutions THEN @ + 1 ELSE @]
  /\ jobs' = update_job(jobs, job[w].id, mark_as_completed_updates, now)
  /\ pc' = [pc EXCEPT ![w] = "loop"]
  /\ job' = [job EXCEPT ![w] = None]
  /\ UNCHANGED <<config, now, enqueued, running, dlq_prompt, raised,
                 transitions, set_call, returned,
                 processes, supervisor>>

\* A loop without `except Exception`: an exception of mark_as_failed ends
\* Worker.run.
MarkAsFailed_uncaught(w) ==
  /\ pc[w] = "execute"
  /\ execute_command(job[w].command) # 0
  /\ executions' =
       [executions EXCEPT ![job[w].id] =
          IF @ < MaxExecutions THEN @ + 1 ELSE @]
  /\ IF mark_as_failed_raises(job[w].attempts, job[w].max_retries, config, now)
     THEN /\ pc' = [pc EXCEPT ![w] = "stopped"]
          /\ UNCHANGED <<jobs, transitions>>
     ELSE /\ transitions' =
               [transitions EXCEPT ![job[w].id] =
                  IF @ < MaxExecutions THEN @ + 1 ELSE @]
          /\ jobs' = update_job(jobs, job[w].id,
                        mark_as_failed_updates(job[w].attempts,
                                               job[w].max_retries, config, now),
                        now)
          /\ pc' = [pc EXCEPT ![w] = "loop"]
  /\ job' = [job EXCEPT ![w] = None]
  /\ UNCHANGED <<config, now, enqueued, running, dlq_prompt, raised,
                 set_call, returned,
                 processes, supervisor>>

\* Worker.run: execute_command on the claimed job returns non-zero, then
\* mark_as_failed.  An exception it raises is caught by the loop, which
\* sleeps and continues at the top.
MarkAsFailed(w) ==
  /\ pc[w] = "execute"
  /\ execute_command(job[w].command) # 0
  /\ executions' =
       [executions EXCEPT ![job[w].id] =
          IF @ < MaxExecutions THEN @ + 1 ELSE @]
  /\ IF mark_as_failed_raises(job[w].attempts, job[w].max_retries, config, now)
     THEN /\ pc' = [pc EXCEPT ![w] = "loop"]
          /\ UNCHANGED <<jobs, transitions>>
     ELSE /\ transitions' =
               [transitions EXCEPT ![job[w].id] =
                  IF @ < MaxExecutions THEN @ + 1 ELSE @]
          /\ jobs' = update_job(jobs, job[w].id,
                        mark_as_failed_updates(job[w].attempts,
                                               job[w].max_retries, config, now),
                        now)
          /\ pc' = [pc EXCEPT ![w] = "loop"]
  /\ job' = [job EXCEPT ![w] = None]
  /\ UNCHANGED <<config, now, enqueued, running, dlq_prompt, raised,
                 set_call, returned,
                 processes, supervisor>>

\* SIGINT or SIGTERM: the handler calls shutdown, which clears running.
Shutdown(w) ==
  /\ pc[w] # "stopped"
  /\ running[w]
  /\ running' = [running EXCEPT ![w] = FALSE]
  /\ UNCHANGED <<jobs, config, now, enqueued, pc, job, executions,
                 dlq_prompt, raised,
                 transitions, set_call, returned,
                 processes, supervisor>>

\* Worker.run: the loop test fails and the worker stops.
Stop(w) ==
  /\ pc[w] = "loop"
  /\ ~running[w]
  /\ pc' = [pc EXCEPT ![w] = "stopped"]
  /\ UNCHANGED <<jobs, config, now, enqueued, running, job, executions, dlq_prompt, raised,
                 transitions, set_call, returned,
                 processes, supervisor>>

\* The worker process dies while execute_command runs: nothing of Worker.run
\* is executed after that, and the claimed row stays as claim_next_job left
\* it.
Crash(w) ==
  /\ pc[w] = "execute"
  /\ pc' = [pc EXCEPT ![w] = "crashed"]
  /\ job' = [job EXCEPT ![w] = None]
  /\ UNCHANGED <<jobs, config, now, enqueued, running, executions,
                 dlq_prompt, raised, transitions, set_call, returned,
                 processes, supervisor>>

\* Worker.mark_as_processing, called directly on any job id.
MarkAsProcessing(id) ==
  /\ jobs' = update_job(jobs, id, [state |-> "processing"], now)
  /\ UNCHANGED <<config, now, enqueued, running, pc, job, executions, dlq_prompt, raised,
                 transitions, set_call, returned,
                 processes, supervisor>>

\* Storage.update_job called directly.
UpdateJob(id, updates) ==
  /\ IF update_job_raises(updates)
     THEN /\ raised' = "OperationalError"
          /\ UNCHANGED <<jobs, returned,
                 processes, supervisor>>
     ELSE /\ jobs' = update_job(jobs, id, updates, now)
          /\ returned' = [id |-> id, updates |-> updates,
                          value |-> update_job_returns(jobs, id, updates)]
          /\ raised' = ""
  /\ UNCHANGED <<config, now, enqueued, running, pc, job, executions,
                 dlq_prompt, transitions, set_call, processes, supervisor>>

\* The worker_id `worker start` gives to the i-th process it spawns.
worker_id(i) == WorkerNames[i]

\* queuectl worker start --count: the next invocation.  A count below 1 ends
\* with click.Abort; otherwise count processes are spawned, each running
\* Worker(worker_id).run(), and the invocation waits in process.join().
Start(count) ==
  /\ \E s \in 1..MaxStarts :
       /\ supervisor[s] = "none"
       /\ \A t \in 1..(s - 1) : supervisor[t] # "none"
       /\ IF count < 1
          THEN /\ raised' = "Abort"
               /\ UNCHANGED <<processes, supervisor>>
          ELSE /\ processes' = processes \o
                    [i \in 1..count |->
                       [worker_id |-> worker_id(i), supervisor |-> s,
                        pc |-> "loop", running |-> TRUE]]
               /\ supervisor' = [supervisor EXCEPT ![s] = "join"]
               /\ UNCHANGED raised
  /\ UNCHANGED <<jobs, config, now, enqueued, running, pc, job, executions,
                 dlq_prompt, transitions, set_call, returned>>

\* Worker.run in a spawned process: a worker at the top of its loop with
\* running set claims a job and runs its command.
ProcessClaims(i) ==
  /\ processes[i].pc = "loop"
  /\ processes[i].running
  /\ processes' = [processes EXCEPT ![i].pc = "execute"]
  /\ UNCHANGED <<jobs, config, now, enqueued, running, pc, job, executions,
                 dlq_prompt, transitions, set_call, raised, returned,
                 supervisor>>

\* Worker.run in a spawned process: the command ends, the outcome step is
\* taken and the worker is back at the top of its loop.
ProcessRecords(i) ==
  /\ processes[i].pc = "execute"
  /\ processes' = [processes EXCEPT ![i].pc = "loop"]
  /\ UNCHANGED <<jobs, config, now, enqueued, running, pc, job, executions,
                 dlq_prompt, transitions, set_call, raised, returned,
                 supervisor>>

\* Worker.run in a spawned process: the loop test fails and the process
\* exits.
ProcessExits(i) ==
  /\ processes[i].pc = "loop"
  /\ ~processes[i].running
  /\ processes' = [processes EXCEPT ![i].pc = "stopped"]
  /\ UNCHANGED <<jobs, config, now, enqueued, running, pc, job, executions,
                 dlq_prompt, transitions, set_call, raised, returned,
                 supervisor>>

\* KeyboardInterrupt in `worker start`: process.terminate() sends SIGTERM to
\* every process that is alive, whose handler clears running.
Interrupt(s) ==
  /\ supervisor[s] = "join"
  /\ processes' =
       [i \in 1..Len(processes) |->
          IF processes[i].supervisor = s /\ processes[i].pc # "stopped"
          THEN [processes[i] EXCEPT !.running = FALSE]
          ELSE processes[i]]
  /\ supervisor' = [supervisor EXCEPT ![s] = "join_timeout"]
  /\ UNCHANGED <<jobs, config, now, enqueued, running, pc, job, executions,
                 dlq_prompt, transitions, set_call, raised, returned>>

\* `worker start` after terminate: process.join(timeout=5) has returned for
\* every process, stopped or not, and the command prints "All workers
\* stopped." and ends.
JoinReturns(s) ==
  /\ supervisor[s] = "join_timeout"
  /\ supervisor' = [supervisor EXCEPT ![s] = "done"]
  /\ UNCHANGED <<jobs, config, now, enqueued, running, pc, job, executions,
                 dlq_prompt, transitions, set_call, raised, returned,
                 processes>>

\* queuectl status
Status ==
  /\ raised' = IF status_raises(jobs) THEN "AttributeError" ELSE ""
  /\ UNCHANGED <<jobs, config, now, enqueued, running, pc, job, executions,
                 dlq_prompt, transitions, set_call, returned, processes,
                 supervisor>>

\* The queue: enqueue, given the payloads of QueuePayloads, and the workers,
\* which receive no signal.  No job leaves this queue for the dead letter
\* queue, so `dlq retry` has no job to revive here.  The config table stays
\* as installed, every setting at its default.
Next ==
  \/ Tick
  \/ \E id \in Ids, p \in QueuePayloads : Enqueue(id, p)
  \/ \E w \in Workers : ClaimNextJob(w)
  \/ \E w \in Workers : MarkAsCompleted(w)
  \/ \E w \in Workers : MarkAsFailed(w)

Spec == Init /\ [][Next]_vars

\* The queue within one reading of the clock.
NextQueue ==
  \/ \E id \in Ids, p \in QueuePayloads : Enqueue(id, p)
  \/ \E w \in Workers : ClaimNextJob(w)
  \/ \E w \in Workers : MarkAsCompleted(w)
  \/ \E w \in Workers : MarkAsFailed(w)

\* Workers that neither crash nor are signalled: the loop of Worker.run polls
\* once a second, so a worker at the top of its loop claims a job that stays
\* claimable, and a worker that holds a job runs its command and records the
\* outcome.
Fairness ==
  \A w \in Workers :
    /\ WF_vars(ClaimNextJob(w))
    /\ WF_vars(MarkAsCompleted(w))
    /\ WF_vars(MarkAsFailed(w))

SpecFair == Init /\ [][NextQueue]_vars /\ Fairness

\* The queue with workers that may die while they run a command, and the
\* operator's `dlq retry`; the workers that live are scheduled as in SpecFair.
NextCrash ==
  \/ NextQueue
  \/ \E w \in Workers : Crash(w)
  \/ \E id \in Ids : DlqRetry(id)

SpecCrash == Init /\ [][NextCrash]_vars /\ Fairness

\* The queue, within one reading of the clock, with workers that receive
\* SIGINT or SIGTERM.
NextSignals ==
  \/ NextQueue
  \/ \E w \in Workers : Shutdown(w)
  \/ \E w \in Workers : Stop(w)

SpecSignals == Init /\ [][NextSignals]_vars

\* Signalled workers that do not crash: besides the steps of Fairness, a
\* worker whose loop test fails leaves the loop.
SpecShutdown ==
  /\ SpecSignals
  /\ Fairness
  /\ \A w \in Workers : WF_vars(Stop(w))

\* The queue together with direct calls of Worker.mark_as_processing.
NextApi ==
  \/ Next
  \/ \E id \in Ids : MarkAsProcessing(id)

SpecApi == Init /\ [][NextApi]_vars

\* The workers and `dlq retry` on a store filled by direct calls of
\* Storage.create_job, all within one reading of the clock.
NextStorage ==
  \/ \E id \in Ids : CreateJob(id)
  \/ \E id \in Ids : DlqRetry(id)
  \/ \E w \in Workers : ClaimNextJob(w)
  \/ \E w \in Workers : MarkAsCompleted(w)
  \/ \E w \in Workers : MarkAsFailed(w)

SpecStorage == Init /\ [][NextStorage]_vars

\* enqueue with every payload, and `dlq retry`.
NextAdmin ==
  \/ Tick
  \/ \E id \in Ids, p \in Payloads : Enqueue(id, p)
  \/ \E id \in Ids : DlqRetry(id)

SpecAdmin == Init /\ [][NextAdmin]_vars

\* enqueue with every payload.
NextEnqueue ==
  \/ Tick
  \/ \E id \in Ids, p \in Payloads : Enqueue(id, p)

SpecEnqueue == Init /\ [][NextEnqueue]_vars

\* `config set` beside enqueue.
NextConfig ==
  \/ Tick
  \/ \E id \in Ids, p \in QueuePayloads : Enqueue(id, p)
  \/ \E k \in ConfigKeys, v \in ConfigValues : SetConfig(k, v)

SpecConfig == Init /\ [][NextConfig]_vars

\* `worker start` invocations and the processes they spawn.
NextSupervisor ==
  \/ \E count \in 0..NumWorkers : Start(count)
  \/ \E i \in 1..Len(processes) : ProcessClaims(i)
  \/ \E i \in 1..Len(processes) : ProcessRecords(i)
  \/ \E i \in 1..Len(processes) : ProcessExits(i)
  \/ \E s \in 1..MaxStarts : Interrupt(s)
  \/ \E s \in 1..MaxStarts : JoinReturns(s)

SpecSupervisor == Init /\ [][NextSupervisor]_vars

\* `queuectl status` beside the queue.
NextStatus ==
  \/ NextQueue
  \/ Status

SpecStatus == Init /\ [][NextStatus]_vars

\* Direct calls of Storage.create_job and Storage.update_job.
NextUpdate ==
  \/ Tick
  \/ \E id \in Ids : CreateJob(id)
  \/ \E id \in Ids, updates \in Patches : UpdateJob(id, updates)

SpecUpdate == Init /\ [][NextUpdate]_vars

\* ------------------------------------------------------------------ claims

\* C1: two workers never both hold the same job as claimed and not yet
\* recorded.
UniqueClaim ==
  \A w1, w2 \in Workers :
    (/\ w1 # w2
     /\ pc[w1] = "execute"
     /\ pc[w2] = "execute")
    => job[w1].id # job[w2].id

\* Two workers hold claimed jobs at the same time.
UniqueClaimWitness ==
  \E w1, w2 \in Workers :
    /\ w1 # w2
    /\ pc[w1] = "execute"
    /\ pc[w2] = "execute"

\* C2: a job is processing exactly when locked_by and locked_at are both
\* non-null, and in every other state both are null.
LockFieldsMatchState ==
  \A id \in DOMAIN jobs :
    /\ jobs[id].state = "processing"
         <=> (jobs[id].locked_by # NULL /\ jobs[id].locked_at # NoTime)
    /\ jobs[id].state \in {"pending", "completed", "failed", "dead"}
         => (jobs[id].locked_by = NULL /\ jobs[id].locked_at = NoTime)

RetryScheduledWithBackoff ==
  [][\A w \in Workers :
       /\ (/\ pc[w] = "execute"
            /\ execute_command(job[w].command) # 0
            /\ pc'[w] # "execute"
            /\ job[w].attempts + 1 < job[w].max_retries) =>
             /\ jobs'[job[w].id].state = "pending"
             /\ next_retry_at(jobs'[job[w].id])
                  = now + delay_seconds(config, job[w].attempts + 1)
       /\ (pc[w] = "loop" /\ pc'[w] = "execute") =>
             \/ next_retry_at(jobs[job'[w].id]) = NoTime
             \/ next_retry_at(jobs[job'[w].id]) <= now]_vars

\* C5: a claim never takes a job while an eligible job of higher priority
\* exists.
ClaimHighestPriority ==
  [][\A w \in Workers :
       (pc[w] = "loop" /\ pc'[w] = "execute") =>
         LET rank(p) == CASE p = "high" -> 0 [] p = "medium" -> 1 [] OTHER -> 2
         IN \A other \in Eligible(jobs) :
              rank(enqueued[job'[w].id].priority)
                <= rank(enqueued[other].priority)]_vars

\* C6: among eligible jobs of equal priority a claim takes the one with the
\* smallest created_at and, among those, the smallest id.
ClaimOldestThenSmallestId ==
  [][\A w \in Workers :
       (pc[w] = "loop" /\ pc'[w] = "execute") =>
         \A other \in Eligible(jobs) :
           enqueued[other].priority = enqueued[job'[w].id].priority =>
             \/ jobs[job'[w].id].created_at < jobs[other].created_at
             \/ /\ jobs[job'[w].id].created_at = jobs[other].created_at
                /\ job'[w].id <= other]_vars

\* C7: a successful claim changes exactly the selected job: state, locked_by,
\* locked_at and updated_at are set, every other field and every other job is
\* as before; a worker obtains only a job that was eligible, and a worker
\* that stays at the top of its loop holds None.
ClaimFrame ==
  [][\A w \in Workers :
       /\ (pc[w] = "loop" /\ pc'[w] = "execute") =>
            /\ DOMAIN jobs' = DOMAIN jobs
            /\ job'[w].id \in Eligible(jobs)
            /\ job'[w] = jobs'[job'[w].id]
            /\ jobs'[job'[w].id].state = "processing"
            /\ jobs'[job'[w].id].locked_by = w
            /\ jobs'[job'[w].id].locked_at = now
            /\ jobs'[job'[w].id].updated_at = now
            /\ jobs'[job'[w].id].attempts = jobs[job'[w].id].attempts
            /\ jobs'[job'[w].id].max_retries = jobs[job'[w].id].max_retries
            /\ jobs'[job'[w].id].command = jobs[job'[w].id].command
            /\ jobs'[job'[w].id].created_at = jobs[job'[w].id].created_at
            /\ jobs'[job'[w].id].id = jobs[job'[w].id].id
            /\ \A other \in DOMAIN jobs \ {job'[w].id} :
                 jobs'[other] = jobs[other]
       /\ (pc[w] = "loop" /\ pc'[w] = "loop") => job'[w] = None]_vars

\* A worker has claimed one job, at a clock reading later than the job's
\* creation, while another job is in the table.
ClaimFrameWitness ==
  \E w \in Workers :
    /\ pc[w] = "execute"
    /\ job[w].attempts = 0
    /\ job[w].updated_at > job[w].created_at
    /\ DOMAIN jobs \ {job[w].id} # {}

\* C8: after a failed attempt with a = attempts_before + 1 the job is dead
\* when a >= max_retries and pending otherwise, with attempts = a and the
\* lock fields cleared.
FailedAttemptOutcome ==
  [][\A w \in Workers :
       (/\ pc[w] = "execute"
        /\ execute_command(job[w].command) # 0
        /\ pc'[w] # "execute") =>
         /\ jobs'[job[w].id].attempts = job[w].attempts + 1
         /\ jobs'[job[w].id].state =
              IF job[w].attempts + 1 >= job[w].max_retries
              THEN "dead" ELSE "pending"
         /\ jobs'[job[w].id].locked_by = NULL
         /\ jobs'[job[w].id].locked_at = NoTime]_vars

AttemptsBounded ==
  \A id \in DOMAIN jobs :
    /\ jobs[id].attempts <= jobs[id].max_retries + 1
    /\ jobs[id].state = "dead" => jobs[id].attempts >= jobs[id].max_retries

\* C11: a completed job never changes state again, a dead job is changed by
\* nothing but dlq retry, and no step of a worker changes a completed or
\* dead job.
TerminalStatesAbsorbing ==
  [][\A id \in DOMAIN jobs :
       /\ jobs[id].state = "completed" => jobs'[id].state = "completed"
       /\ jobs[id].state = "dead" =>
            \/ jobs'[id] = jobs[id]
            \/ dlq_prompt'[id] < dlq_prompt[id]
       /\ (jobs[id].state \in {"completed", "dead"} /\ pc' # pc) =>
            jobs'[id] = jobs[id]]_vars

NextRetryAtOnlyWhenRetryPending ==
  \A id \in DOMAIN jobs :
    /\ next_retry_at(jobs[id]) # NoTime =>
         (jobs[id].state = "pending" /\ jobs[id].attempts > 0)
    /\ jobs[id].state \in {"processing", "completed", "dead"} =>
         next_retry_at(jobs[id]) = NoTime

\* A job handed to create_job with a next_retry_at has been claimed and is
\* processing.
NextRetryAtOnlyWhenRetryPendingWitness ==
  \E id \in DOMAIN jobs :
    /\ enqueued[id].next_retry_at # NoTime
    /\ jobs[id].state = "processing"

\* C14: each execution outcome is recorded as one transition of the claimed
\* job: exit code 0 makes it completed with the lock fields cleared and
\* attempts unchanged; any other exit code makes it pending or dead, as
\* mark_as_failed and the retry policy decide.
OutcomeRecordedAsTransition ==
  [][\A w \in Workers :
       (pc[w] = "execute" /\ pc'[w] # "execute") =>
         IF execute_command(job[w].command) = 0
         THEN /\ jobs'[job[w].id].state = "completed"
              /\ jobs'[job[w].id].locked_by = NULL
              /\ jobs'[job[w].id].locked_at = NoTime
              /\ jobs'[job[w].id].attempts = job[w].attempts
         ELSE jobs'[job[w].id].state =
                (IF should_retry(job[w].attempts + 1, job[w].max_retries)
                 THEN "pending" ELSE "dead")]_vars

\* C15: dlq retry confirmed on a dead job leaves it pending with attempts = 0,
\* locked_by, locked_at and next_retry_at null, and eligible for a claim.
DlqRetryResetsDeadJob ==
  [][\A id \in DOMAIN jobs :
       (/\ jobs[id].state = "dead"
        /\ dlq_prompt'[id] < dlq_prompt[id]
        /\ raised' = "") =>
         /\ jobs'[id].state = "pending"
         /\ jobs'[id].attempts = 0
         /\ jobs'[id].locked_by = NULL
         /\ jobs'[id].locked_at = NoTime
         /\ next_retry_at(jobs'[id]) = NoTime
         /\ id \in Eligible(jobs')]_vars

\* A job stored as dead with one attempt is pending with attempts = 0 after
\* a confirmed dlq retry.
DlqRetryResetsDeadJobWitness ==
  \E id \in DOMAIN jobs :
    /\ enqueued[id].state = "dead"
    /\ enqueued[id].attempts > 0
    /\ jobs[id].state = "pending"
    /\ jobs[id].attempts = 0
    /\ raised = ""

\* C16: dlq retry reaches its prompt only for a job that exists and is dead;
\* a step that is no insertion, no answer at a prompt and no step of a worker
\* changes no job and ends with an exception.
DlqRetryRejectsOthers ==
  [][/\ \A id \in Ids :
          dlq_prompt'[id] > dlq_prompt[id] =>
            (id \in DOMAIN jobs /\ jobs[id].state = "dead")
     /\ (/\ dlq_prompt' = dlq_prompt
         /\ pc' = pc
         /\ DOMAIN jobs' = DOMAIN jobs) =>
           (jobs' = jobs /\ raised' # "")]_vars

\* Every id is in the store, none was ever dead, and the latest dlq retry
\* was aborted.
DlqRetryRejectsOthersWitness ==
  /\ DOMAIN jobs = Ids
  /\ \A id \in Ids : enqueued[id].state = "pending"
  /\ raised = "Abort"

\* C17: create_job with an id that is already in the store ends with an
\* error and changes no job; a job in the store, whatever its state, is left
\* as it is by every step that is neither a worker's nor an answer at a
\* dlq retry prompt.
DuplicateIdRejected ==
  [][/\ (raised' = "IntegrityError" /\ raised # "IntegrityError") =>
          (jobs' = jobs /\ enqueued' = enqueued)
     /\ (pc' = pc /\ dlq_prompt' = dlq_prompt) =>
          \A id \in DOMAIN jobs :
            /\ id \in DOMAIN jobs'
            /\ jobs'[id] = jobs[id]
            /\ enqueued'[id] = enqueued[id]]_vars

\* The latest create_job call was rejected while the store holds a completed
\* job and a job that is being processed.
DuplicateIdRejectedWitness ==
  /\ raised = "IntegrityError"
  /\ DOMAIN jobs = Ids
  /\ \E id \in Ids : jobs[id].state = "completed"
  /\ \E id \in Ids : jobs[id].state = "processing"

\* C18: right after create_job(j) succeeds, get_job(j.id) equals j in id,
\* command, priority, state, attempts, max_retries and next_retry_at.
CreateThenGetRoundTrip ==
  [][\A id \in DOMAIN jobs' \ DOMAIN jobs :
       LET j == enqueued'[id]
           got == get_job(jobs', id)
       IN /\ got.id = j.id
          /\ got.command = j.command
          /\ priority(got) = j.priority
          /\ got.state = j.state
          /\ got.attempts = j.attempts
          /\ got.max_retries = j.max_retries
          /\ next_retry_at(got) = j.next_retry_at]_vars

\* C19: after set_config(k, v), get_config(k) returns v, also when k had
\* another value before; get_config(k, default) returns default for a key
\* that was never set; set_config changes no other key and no job.
SetThenGetConfig ==
  /\ [](/\ set_call # None =>
             get_config(config, set_call.key, "default") = set_call.value
        /\ \A k \in ConfigKeys \ DOMAIN config :
             get_config(config, k, "default") = "default")
  /\ [][(set_call' # set_call \/ config' # config) =>
          /\ jobs' = jobs
          /\ \A k \in ConfigKeys \ {set_call'.key} :
               /\ k \in DOMAIN config' <=> k \in DOMAIN config
               /\ k \in DOMAIN config => config'[k] = config[k]]_vars

\* The latest set_config call gave a key the empty string while the other
\* keys hold other values and a job is in the store.
SetThenGetConfigWitness ==
  /\ set_call # None
  /\ set_call.value = ""
  /\ DOMAIN config = ConfigKeys
  /\ \A k \in ConfigKeys \ {set_call.key} : config[k] # ""
  /\ DOMAIN jobs # {}

\* C20: list_jobs(state) returns exactly the jobs that are in that state,
\* each once, in ascending created_at order, and list_jobs() returns every
\* job in that order.
ListJobsByStateInOrder ==
  \A state \in States \cup {""} :
    /\ list_jobs(jobs, state, 0) # {}
    /\ \A rows \in list_jobs(jobs, state, 0) :
         LET sel == {id \in DOMAIN jobs :
                       state = "" \/ jobs[id].state = state}
         IN /\ {rows[i].id : i \in 1..Len(rows)} = sel
            /\ Len(rows) = Cardinality(sel)
            /\ \A i \in 1..Len(rows) : rows[i] = jobs[rows[i].id]
            /\ \A i, j \in 1..Len(rows) :
                 i < j => rows[i].created_at <= rows[j].created_at

\* The job with the larger id was created first, and the two jobs are in
\* different states.
ListJobsByStateInOrderWitness ==
  \E a, b \in DOMAIN jobs :
    /\ a < b
    /\ jobs[b].created_at < jobs[a].created_at
    /\ jobs[a].state # jobs[b].state

\* C21: update_job(id, patch) on a job that exists applies the patch,
\* refreshes updated_at and returns True, for every patch including the empty
\* one; on an id that is not in the store it returns False and changes
\* nothing.
UpdateJobAppliesPatch ==
  [][(returned' # returned /\ raised' = "") =>
       IF returned'.id \in DOMAIN jobs
       THEN /\ returned'.value = TRUE
            /\ jobs'[returned'.id].updated_at = now
            /\ \A c \in DOMAIN returned'.updates :
                 jobs'[returned'.id][c] = returned'.updates[c]
       ELSE /\ returned'.value = FALSE
            /\ jobs' = jobs]_vars

\* C22: an enqueue whose payload fails validation (not a JSON object, command
\* missing or blank, id blank, priority outside high, medium, low) ends with
\* an error, creates no job and changes no job that exists.
InvalidPayloadRejected ==
  [][\A id \in Ids, p \in InvalidPayloads :
       Enqueue(id, p) =>
         /\ raised' \in {"Abort", "JSONDecodeError"}
         /\ jobs' = jobs
         /\ enqueued' = enqueued]_vars

\* The latest enqueue was stopped by a validation step while the store holds
\* a job.
InvalidPayloadRejectedWitness ==
  /\ raised = "Abort"
  /\ DOMAIN jobs # {}

\* C23: enqueue rejects a max_retries that is not a non-negative integer, so
\* every stored job has a non-negative integer max_retries.
MaxRetriesNonNegative ==
  \A id \in DOMAIN jobs :
    /\ jobs[id].max_retries \in Int
    /\ jobs[id].max_retries >= 0

\* C24: a successful enqueue adds exactly one job, pending, with attempts 0,
\* no lock, and the supplied priority in lower case (medium when none was
\* supplied); that priority is what a reader of the stored job observes.
EnqueueAddsOnePendingJob ==
  [][DOMAIN jobs' # DOMAIN jobs =>
       \E id \in Ids \ DOMAIN jobs :
         /\ DOMAIN jobs' = DOMAIN jobs \cup {id}
         /\ \A other \in DOMAIN jobs : jobs'[other] = jobs[other]
         /\ jobs'[id].state = "pending"
         /\ jobs'[id].attempts = 0
         /\ jobs'[id].locked_by = NULL
         /\ jobs'[id].locked_at = NoTime
         /\ enqueued'[id].priority \in valid_priorities
         /\ priority(get_job(jobs', id)) = enqueued'[id].priority]_vars

\* C25: a job enqueued with a payload that has no max_retries gets the value
\* of the config key max-retries at that moment, 3 when the key was never
\* set.
DefaultMaxRetriesFromConfig ==
  [][\A id \in Ids, p \in QueuePayloads :
       (/\ "max_retries" \notin DOMAIN p
        /\ Enqueue(id, p)
        /\ id \in DOMAIN jobs' \ DOMAIN jobs
        /\ is_int(get_config(config, "max-retries", "3"))) =>
          jobs'[id].max_retries = int(get_config(config, "max-retries", "3"))]_vars

\* C26: with the workers running and none crashing, a job whose command
\* always fails and whose max_retries is at least 1 eventually is dead with
\* attempts = max_retries and is in the list of dead jobs.
FailingJobEventuallyDead ==
  \A id \in Ids :
    (/\ id \in DOMAIN jobs
     /\ execute_command(jobs[id].command) # 0
     /\ jobs[id].max_retries >= 1)
    ~> (/\ id \in DOMAIN jobs
        /\ jobs[id].state = "dead"
        /\ jobs[id].attempts = jobs[id].max_retries
        /\ \A rows \in list_jobs(jobs, "dead", 0) :
             \E i \in 1..Len(rows) : rows[i].id = id)

\* C27: with the workers running and none crashing, every enqueued job whose
\* command succeeds eventually is completed.
SucceedingJobEventuallyCompleted ==
  \A id \in Ids :
    (id \in DOMAIN jobs /\ execute_command(jobs[id].command) = 0)
    ~> (id \in DOMAIN jobs /\ jobs[id].state = "completed")

\* A job whose command succeeds is completed beside a job whose command was
\* run and failed.
SucceedingJobEventuallyCompletedWitness ==
  \E id, other \in DOMAIN jobs :
    /\ execute_command(jobs[id].command) = 0
    /\ jobs[id].state = "completed"
    /\ execute_command(jobs[other].command) # 0
    /\ executions[other] > 0

\* C28: from the claim of a job by worker w until w records the outcome, the
\* stored job is processing with locked_by = w, and no step of another worker
\* and no administrative command changes its state or its lock.
ClaimedJobStaysLocked ==
  /\ [](\A w \in Workers :
          pc[w] = "execute" =>
            /\ get_job(jobs, job[w].id).state = "processing"
            /\ get_job(jobs, job[w].id).locked_by = w)
  /\ [][\A w \in Workers :
          (pc[w] = "execute" /\ pc'[w] = "execute") =>
            /\ jobs'[job[w].id].state = jobs[job[w].id].state
            /\ jobs'[job[w].id].locked_by = jobs[job[w].id].locked_by
            /\ jobs'[job[w].id].locked_at = jobs[job[w].id].locked_at]_vars

\* C29: a job left processing by a worker that crashed does not stay
\* processing for ever: it eventually is pending again with its lock cleared.
CrashedJobEventuallyUnstuck ==
  \A id \in Ids :
    (/\ id \in DOMAIN jobs
     /\ jobs[id].state = "processing"
     /\ \E w \in Workers : pc[w] = "crashed" /\ jobs[id].locked_by = w)
    ~> (/\ id \in DOMAIN jobs
        /\ jobs[id].state = "pending"
        /\ jobs[id].locked_by = NULL)

\* C30: after SIGINT or SIGTERM a worker has running = FALSE for good, still
\* records the outcome of the job it is executing, claims no job any more,
\* eventually stops, and when stopped leaves no job processing and locked by
\* it.
GracefulShutdown ==
  /\ [][\A w \in Workers :
          ~running[w] =>
            /\ ~running'[w]
            /\ ~(pc[w] = "loop" /\ pc'[w] = "execute")]_vars
  /\ [][\A w \in Workers :
          (~running[w] /\ pc[w] = "execute" /\ pc'[w] # "execute") =>
            jobs'[job[w].id].state \in {"completed", "pending", "dead"}]_vars
  /\ \A w \in Workers : ~running[w] ~> pc[w] = "stopped"
  /\ [](\A w \in Workers :
          pc[w] = "stopped" =>
            \A id \in DOMAIN jobs :
              ~(jobs[id].state = "processing" /\ jobs[id].locked_by = w))

\* C31: an exception raised inside the worker loop does not end the worker:
\* the worker is back at the top of its loop with running unchanged and can
\* claim again; a worker stops only after a signal has cleared running, and
\* running is cleared by nothing but the signal handler.
ExceptionKeepsWorkerRunning ==
  /\ [](\A w \in Workers : pc[w] = "stopped" => ~running[w])
  /\ [][\A w \in Workers :
          /\ (/\ pc[w] = "execute"
              /\ pc'[w] # "execute"
              /\ mark_as_failed_raises(job[w].attempts, job[w].max_retries,
                                       config, now)
              /\ execute_command(job[w].command) # 0) =>
                (pc'[w] = "loop" /\ running'[w] = running[w])
          /\ running'[w] # running[w] =>
                (jobs' = jobs /\ pc' = pc /\ ~running'[w])]_vars

\* A worker whose mark_as_failed raised on one job, which it left processing,
\* holds another job that it claimed afterwards.
ExceptionKeepsWorkerRunningWitness ==
  \E w \in Workers, id \in DOMAIN jobs :
    /\ pc[w] = "execute"
    /\ job[w].id # id
    /\ executions[id] > 0
    /\ jobs[id].state = "processing"
    /\ jobs[id].locked_by = w
    /\ running[w]

\* C32: worker start with count >= 1 spawns exactly count workers with the
\* pairwise distinct ids worker-1..worker-count, with count < 1 it starts no
\* worker, and the ids of the live workers are pairwise distinct.
LiveWorkerIdsUnique ==
  /\ [][\A count \in 0..NumWorkers :
          Start(count) =>
            LET new == {i \in 1..Len(processes') : i > Len(processes)}
            IN /\ Cardinality(new) = (IF count < 1 THEN 0 ELSE count)
               /\ {processes'[i].worker_id : i \in new}
                    = {WorkerNames[k] : k \in 1..count}
               /\ \A i \in 1..Len(processes) :
                    processes'[i] = processes[i]]_vars
  /\ [](\A i, j \in 1..Len(processes) :
          (/\ i # j
           /\ processes[i].pc # "stopped"
           /\ processes[j].pc # "stopped") =>
            processes[i].worker_id # processes[j].worker_id)

\* C33: when the shutdown of a `worker start` invocation has finished, no
\* worker process it spawned is still running.
SupervisorLeavesNoWorker ==
  \A s \in 1..MaxStarts :
    supervisor[s] = "done" =>
      \A i \in 1..Len(processes) :
        processes[i].supervisor = s => processes[i].pc = "stopped"

\* C35: the status command succeeds in every state of the store, also while
\* jobs are pending or processing.
StatusSucceeds ==
  [][Status => raised' = ""]_vars

\* C36: a confirmed dlq retry never resets a job that is processing at the
\* moment of its update, and no job is held by two workers at once.
DlqRetryNeverResetsProcessing ==
  /\ [][\A id \in DOMAIN jobs :
          (dlq_prompt'[id] < dlq_prompt[id] /\ jobs'[id] # jobs[id]) =>
            jobs[id].state # "processing"]_vars
  /\ [](\A w1, w2 \in Workers :
          (w1 # w2 /\ pc[w1] = "execute" /\ pc[w2] = "execute") =>
            job[w1].id # job[w2].id)

\* C37: every transition of a job out of processing is the outcome step of
\* the worker named in the job's locked_by, and an outcome step changes the
\* store only when the stored job is locked by the worker taking it.
OutcomeByLockHolder ==
  [][/\ \A id \in DOMAIN jobs :
          (jobs[id].state = "processing" /\ jobs'[id].state # "processing") =>
            \E w \in Workers :
              /\ pc[w] = "execute"
              /\ pc'[w] # "execute"
              /\ job[w].id = id
              /\ jobs[id].locked_by = w
     /\ \A w \in Workers :
          (pc[w] = "execute" /\ pc'[w] # "execute" /\ jobs' # jobs) =>
            jobs[job[w].id].locked_by = w]_vars

\* C38: with no worker crashing, each worker id is the locked_by of at most
\* one processing job, and the processing jobs are no more than the running
\* workers.
OneProcessingJobPerWorker ==
  /\ \A w \in Workers :
       Cardinality({id \in DOMAIN jobs :
                      jobs[id].state = "processing" /\ jobs[id].locked_by = w})
         <= 1
  /\ Cardinality({id \in DOMAIN jobs : jobs[id].state = "processing"})
       <= Cardinality({w \in Workers : running[w] /\ pc[w] # "stopped"})

\* C39: a job claimed by a worker that does not crash eventually leaves
\* processing.
ClaimedJobEventuallyLeavesProcessing ==
  \A id \in Ids :
    (id \in DOMAIN jobs /\ jobs[id].state = "processing")
    ~> (id \in DOMAIN jobs /\ jobs[id].state # "processing")

\* C40: no step deletes a job or changes a job's id, command, max_retries or
\* created_at; attempts changes only to the stored value plus one in the
\* outcome step of a failed execution of that job, or to 0 in a confirmed
\* dlq retry.
JobIdentityFrame ==
  [][\A id \in DOMAIN jobs :
       /\ id \in DOMAIN jobs'
       /\ jobs'[id].id = jobs[id].id
       /\ jobs'[id].command = jobs[id].command
       /\ jobs'[id].max_retries = jobs[id].max_retries
       /\ jobs'[id].created_at = jobs[id].created_at
       /\ \/ jobs'[id].attempts = jobs[id].attempts
          \/ /\ jobs'[id].attempts = jobs[id].attempts + 1
             /\ \E w \in Workers :
                  /\ pc[w] = "execute"
                  /\ pc'[w] # "execute"
                  /\ job[w].id = id
                  /\ execute_command(job[w].command) # 0
          \/ /\ jobs'[id].attempts = 0
             /\ dlq_prompt'[id] < dlq_prompt[id]]_vars

\* A job created dead with one attempt was reset by dlq retry and then
\* completed by a worker, beside a second job in the store.
JobIdentityFrameWitness ==
  \E id \in DOMAIN jobs :
    /\ enqueued[id].state = "dead"
    /\ enqueued[id].attempts = 1
    /\ jobs[id].attempts = 0
    /\ jobs[id].state = "completed"
    /\ DOMAIN jobs \ {id} # {}
====
